---------------------------- MODULE Spec2Model ----------------------------
(***************************************************************************)
(* A model of the Middlewares class of small-middlewares                   *)
(* (src/Middlewares.js): the chain of middlewares, the operations that     *)
(* change it (use, unuse, useFirst, useBefore, useAfter, reset) and the    *)
(* two asynchronous runs over it (process, processWithStop).               *)
(*                                                                         *)
(* Two specifications share the variables and the actions:                 *)
(*   SpecChange  only the operations that change the chain, with argument  *)
(*               lists of up to MaxArgs candidates, and a record of the    *)
(*               last call (lastCall);                                     *)
(*   Spec        one process / processWithStop call at a time, taken step  *)
(*               by step (invoke, stop-callback, settle, resume), with the *)
(*               chain changed between or during the steps.                *)
(***************************************************************************)
EXTENDS Naturals, Sequences, FiniteSets

VARIABLES
    middlewares,  \* this.#middlewares: the content of the current array
    lastCall,     \* history: the last call of an operation that changes the chain
    runs          \* the process / processWithStop calls, by call identity

vars == <<middlewares, lastCall, runs>>

---------------------------------------------------------------------------
(* Bounds of the model *)

\* longest chain SpecChange starts from
MaxChain == 5
\* longest candidate list of one use / unuse / useFirst call in SpecChange
MaxArgs == 3
\* longest candidate list of one useBefore / useAfter call in SpecChange
MaxRelArgs == 2
\* longest chain Spec builds
MaxLiveChain == 3
\* most calls that change the chain while one process / processWithStop call
\* is in flight, in Spec
MaxInFlightChanges == 1

---------------------------------------------------------------------------
(* Values *)

\* The values a caller passes as candidates or anchors: two plain functions,
\* an async function and a generator function.
Values == {"f", "g", "af", "gen"}

\* Object.prototype.toString.call(value)
Tag(value) ==
    CASE value \in {"f", "g"} -> "[object Function]"
      [] value = "af"         -> "[object AsyncFunction]"
      [] value = "gen"        -> "[object GeneratorFunction]"
      [] OTHER                -> "[object Object]"

TagFUNCTION == "[object Function]"
TagASYNC_FUNCTION == "[object AsyncFunction]"

\* a mutant of isFunction: any value whose tag names a kind of function passes
isFunctionAnyKind(value) ==
    Tag(value) \in {TagFUNCTION, TagASYNC_FUNCTION, "[object GeneratorFunction]"}

isFunction(value) ==
    Tag(value) = TagFUNCTION \/ Tag(value) = TagASYNC_FUNCTION

RelativePositionBEFORE == 0
RelativePositionAFTER == 1

\* the lists of at most n elements of S
RECURSIVE ListsUpTo(_, _)
ListsUpTo(S, n) ==
    IF n = 0 THEN {<< >>}
    ELSE LET shorter == ListsUpTo(S, n - 1)
         IN  shorter \cup {Append(l, x) : l \in {s \in shorter : Len(s) = n - 1}, x \in S}

\* Array.prototype.reverse
Reverse(s) == [i \in 1..Len(s) |-> s[Len(s) + 1 - i]]

\* Array.prototype.splice(start, 0, item), start counted from 0
Splice(arr, start, item) ==
    SubSeq(arr, 1, start) \o <<item>> \o SubSeq(arr, start + 1, Len(arr))

---------------------------------------------------------------------------
(* The private methods, as functions from the array to the array *)

\* a mutant of #useOne: a middleware the chain already holds is not stored again
useOneIfAbsent(arr, middleware) ==
    IF \E i \in 1..Len(arr) : arr[i] = middleware THEN arr ELSE Append(arr, middleware)

\* #useOne: push
useOne(arr, middleware) == Append(arr, middleware)

\* a mutant of #unuseOne: only the first occurrence is removed
unuseOneFirstOnly(arr, middleware) ==
    LET at == {i \in 1..Len(arr) : arr[i] = middleware}
    IN  IF at = {} THEN arr
        ELSE LET k == CHOOSE i \in at : \A j \in at : i <= j
             IN  SubSeq(arr, 1, k - 1) \o SubSeq(arr, k + 1, Len(arr))

\* #unuseOne: filter, which builds a new array
unuseOne(arr, middleware) == SelectSeq(arr, LAMBDA m : m # middleware)

\* #useFirst: unshift
useFirstOne(arr, middleware) == <<middleware>> \o arr

\* a mutant of the #useRelative loop: it stops at the first occurrence of fn
RECURSIVE useRelativeFirstOnly(_, _, _, _, _)
useRelativeFirstOnly(arr, i, middleware, fn, diff) ==
    IF ~(i < Len(arr)) THEN arr
    ELSE IF fn # arr[i + 1] THEN useRelativeFirstOnly(arr, i + 1, middleware, fn, diff)
    ELSE Splice(arr, i + diff, middleware)

\* a mutant of the #useRelative loop: `i += 1` is left out, so the scan goes on
\* at the element after the one it stood on (cut off once the array holds 64)
RECURSIVE useRelativeRescan(_, _, _, _, _)
useRelativeRescan(arr, i, middleware, fn, diff) ==
    IF ~(i < Len(arr)) \/ Len(arr) >= 64 THEN arr
    ELSE IF fn # arr[i + 1] THEN useRelativeRescan(arr, i + 1, middleware, fn, diff)
    ELSE useRelativeRescan(Splice(arr, i + diff, middleware), i + 1, middleware, fn, diff)

\* the loop of #useRelative from index i (counted from 0): i++ on `continue`,
\* i += 1 and then i++ after a splice
RECURSIVE useRelativeLoop(_, _, _, _, _)
useRelativeLoop(arr, i, middleware, fn, diff) ==
    IF ~(i < Len(arr)) THEN arr
    ELSE IF fn # arr[i + 1] THEN useRelativeLoop(arr, i + 1, middleware, fn, diff)
    ELSE useRelativeLoop(Splice(arr, i + diff, middleware), i + 2, middleware, fn, diff)

\* a mutant of #useRelative: with no occurrence of fn the middleware is pushed
useRelativeOrPush(arr, middleware, fn, diff) ==
    IF \E i \in 1..Len(arr) : arr[i] = fn
    THEN useRelativeLoop(arr, 0, middleware, fn, diff)
    ELSE Append(arr, middleware)

\* #useRelative
useRelative(arr, middleware, fn, diff) == useRelativeLoop(arr, 0, middleware, fn, diff)

\* the table `commands` of #change
commands(command, arr, m, fn, diff) ==
    CASE command = "use"         -> useOne(arr, m)
      [] command = "unuse"       -> unuseOne(arr, m)
      [] command = "useFirst"    -> useFirstOne(arr, m)
      [] command = "useRelative" -> useRelative(arr, m, fn, diff)

\* a mutant of #change: every candidate is validated before any is applied
RECURSIVE changeAllOrNothing(_, _, _, _, _, _)
changeAllOrNothing(command, arr, mws, k, fn, diff) ==
    IF \E j \in 1..Len(mws) : ~isFunction(mws[j])
    THEN [chain |-> arr, raised |-> TRUE, applied |-> 0]
    ELSE IF k > Len(mws) THEN [chain |-> arr, raised |-> FALSE, applied |-> k - 1]
    ELSE changeAllOrNothing(command, commands(command, arr, mws[k], fn, diff),
                            mws, k + 1, fn, diff)

\* a mutant of #change: the candidate is checked after it has been applied
RECURSIVE changeThenCheck(_, _, _, _, _, _)
changeThenCheck(command, arr, mws, k, fn, diff) ==
    IF k > Len(mws) THEN [chain |-> arr, raised |-> FALSE, applied |-> k - 1]
    ELSE IF ~isFunction(mws[k])
    THEN [chain |-> commands(command, arr, mws[k], fn, diff), raised |-> TRUE,
          applied |-> k]
    ELSE changeThenCheck(command, commands(command, arr, mws[k], fn, diff),
                         mws, k + 1, fn, diff)

\* the loop of #change from candidate k: the array afterwards, whether
\* MiddlewaresError was thrown, and how many candidates were applied
RECURSIVE changeFrom(_, _, _, _, _, _)
changeFrom(command, arr, mws, k, fn, diff) ==
    IF k > Len(mws) THEN [chain |-> arr, raised |-> FALSE, applied |-> k - 1]
    ELSE IF ~isFunction(mws[k]) THEN [chain |-> arr, raised |-> TRUE, applied |-> k - 1]
    ELSE changeFrom(command, commands(command, arr, mws[k], fn, diff),
                    mws, k + 1, fn, diff)

\* #change
change(command, arr, mws, fn, diff) == changeFrom(command, arr, mws, 1, fn, diff)

\* a mutant of useFirst: the candidates are not reversed
useFirstNoReverse(mws) == mws

\* useFirst, line 43: middlewares.reverse()
useFirstOrder(mws) == Reverse(mws)

\* what each public operation hands to #change
\* a mutant of useAfter: the candidates are reversed first, as useFirst does
OutcomeUseAfterReversed(op, arr, mws, anchor) ==
    CASE op = "use"       -> change("use", arr, mws, anchor, 0)
      [] op = "unuse"     -> change("unuse", arr, mws, anchor, 0)
      [] op = "useFirst"  -> change("useFirst", arr, useFirstOrder(mws), anchor, 0)
      [] op = "useBefore" -> change("useRelative", arr, mws, anchor, RelativePositionBEFORE)
      [] op = "useAfter"  -> change("useRelative", arr, Reverse(mws), anchor,
                                    RelativePositionAFTER)
      [] op = "reset"     -> [chain |-> << >>, raised |-> FALSE, applied |-> 0]

\* a mutant of reset: the last middleware is dropped, the others stay
OutcomeResetDropsLast(op, arr, mws, anchor) ==
    CASE op = "use"       -> change("use", arr, mws, anchor, 0)
      [] op = "unuse"     -> change("unuse", arr, mws, anchor, 0)
      [] op = "useFirst"  -> change("useFirst", arr, useFirstOrder(mws), anchor, 0)
      [] op = "useBefore" -> change("useRelative", arr, mws, anchor, RelativePositionBEFORE)
      [] op = "useAfter"  -> change("useRelative", arr, mws, anchor, RelativePositionAFTER)
      [] op = "reset"     -> [chain |-> SubSeq(arr, 1, Len(arr) - 1), raised |-> FALSE,
                              applied |-> 0]

Outcome(op, arr, mws, anchor) ==
    CASE op = "use"       -> change("use", arr, mws, anchor, 0)
      [] op = "unuse"     -> change("unuse", arr, mws, anchor, 0)
      [] op = "useFirst"  -> change("useFirst", arr, useFirstOrder(mws), anchor, 0)
      [] op = "useBefore" -> change("useRelative", arr, mws, anchor, RelativePositionBEFORE)
      [] op = "useAfter"  -> change("useRelative", arr, mws, anchor, RelativePositionAFTER)
      [] op = "reset"     -> [chain |-> << >>, raised |-> FALSE, applied |-> 0]

\* whether the call assigns a new array to this.#middlewares (filter in
\* #unuseOne, [] in reset) instead of changing the array in place
Reassigns(op, out) ==
    \/ op = "reset"
    \/ op = "unuse" /\ out.applied > 0


---------------------------------------------------------------------------
(* The calls of process / processWithStop *)

\* the identities of the calls in flight at once
Calls == {"c1"}

\* the argument lists a caller passes to process / processWithStop
CallArgs == {<<"x", "y">>}

\* the argument lists of the calls whose arguments are followed to the steps
\* and to the wrapped function
ArgLists == {<< >>, <<"x", "y">>}

\* what a step resolves: false, and values that are not false
StepValues == {"false", "true", "0", "null", "undefined", ""}

\* the errors a step throws
Errors == {"E1", "E2"}

\* the errors a step hands to the stop-callback
SignalledErrors == {"E1"}

\* ToBoolean(v) = false
Falsy(v) == v \in {"false", "0", "null", "undefined", ""}

\* the closure `stop` of one processWithStop call
StopCallback(r) == IF r = "c1" THEN "stop of c1" ELSE "stop of c2"

NoOut == [t |-> "none", v |-> "none"]
Pending == [t |-> "pending", v |-> "none"]
Resolved(b) == [t |-> "resolved", v |-> b]
Rejected(e) == [t |-> "rejected", v |-> e]

\* a call that has not been made
NoRun ==
    [kind |-> "none", pc |-> "none", args |-> << >>, detached |-> FALSE,
     snap |-> << >>, idx |-> 0, isStop |-> FALSE, inflight |-> 0, out |-> NoOut,
     result |-> Pending, calls |-> << >>, mutated |-> 0, falseAt |-> 0,
     falsyAt |-> 0, stopAt |-> 0, errAt |-> 0, sigErr |-> "none",
     abrupt |-> FALSE, wpc |-> "none", wargs |-> << >>, fnCalls |-> << >>,
     wresult |-> Pending]

\* the call is in flight
Active(run) == run.pc \in {"await", "resume"}

\* a mutant of the iterator: it reads this.#middlewares anew at every turn
ArrayOfCurrent(run) == middlewares

\* the array the call's iterator walks: the iterator of `for (... of
\* this.#middlewares)` keeps the array object it was created on, which is the
\* current array until unuse or reset assigns a new one
ArrayOf(run) == IF run.detached THEN run.snap ELSE middlewares

\* the array as the iterator sees it once the chain has become `chain`
ArrayAfter(run, chain) == IF run.detached THEN run.snap ELSE chain

---------------------------------------------------------------------------
(* The operations that change the chain *)

NoCall == [op |-> "none", mws |-> << >>, anchor |-> "none", pre |-> << >>,
           raised |-> FALSE, seen |-> [r \in Calls |-> 0]]

\* One call of use / unuse / useFirst / useBefore / useAfter / reset with the
\* candidates mws: the chain afterwards, the call recorded (when record), and
\* every call in flight either sees the array changed in place or keeps the
\* array that was replaced. (The outcome of a call that has ended is handed to
\* its caller, Return, before the chain is changed again: it is a record of
\* the past, which no later operation reads.)
Mutate(op, mws, anchor, record) ==
    LET out == Outcome(op, middlewares, mws, anchor)
    IN  /\ \A r \in Calls : runs[r].pc # "done"
        /\ middlewares' = out.chain
        /\ lastCall' = IF record
                       THEN [op |-> op, mws |-> mws, anchor |-> anchor,
                             pre |-> middlewares, raised |-> out.raised,
                             seen |-> [r \in Calls |-> Len(runs[r].calls)]]
                       ELSE NoCall
        /\ runs' = [r \in Calls |->
                      IF Active(runs[r])
                      THEN [runs[r] EXCEPT
                              !.mutated = @ + 1,
                              !.detached = @ \/ Reassigns(op, out),
                              !.snap = IF ~runs[r].detached /\ Reassigns(op, out)
                                       THEN middlewares ELSE @]
                      ELSE runs[r]]

use(mws, record) == Mutate("use", mws, "none", record)

unuse(mws, record) == Mutate("unuse", mws, "none", record)

useFirst(mws, record) == Mutate("useFirst", mws, "none", record)

useBefore(middleware, mws, record) == Mutate("useBefore", mws, middleware, record)

useAfter(middleware, mws, record) == Mutate("useAfter", mws, middleware, record)

reset(record) == Mutate("reset", << >>, "none", record)

---------------------------------------------------------------------------
(* SpecChange: one call of an operation that changes the chain, on every   *)
(* chain of at most MaxChain middlewares (each of them a chain that calls  *)
(* of use build), with every list of candidates and every anchor.          *)

Functions == {v \in Values : isFunction(v)}

\* the candidates of the calls: a plain function, an async function and a
\* generator function (the anchors are drawn from all of Values)
Candidates == {"f", "af", "gen"}

InitChange ==
    /\ middlewares \in ListsUpTo(Functions, MaxChain)
    /\ lastCall = NoCall
    /\ runs = [r \in Calls |-> NoRun]

NextChange ==
    /\ lastCall.op = "none"
    /\ \/ \E mws \in ListsUpTo(Candidates, MaxArgs) : use(mws, TRUE)
       \/ \E mws \in ListsUpTo(Candidates, MaxArgs) : unuse(mws, TRUE)
       \/ \E mws \in ListsUpTo(Candidates, MaxArgs) : useFirst(mws, TRUE)
       \/ \E a \in Values, mws \in ListsUpTo(Candidates, MaxRelArgs) :
             useBefore(a, mws, TRUE)
       \/ \E a \in Values, mws \in ListsUpTo(Candidates, MaxRelArgs) :
             useAfter(a, mws, TRUE)
       \/ reset(TRUE)

SpecChange == InitChange /\ [][NextChange]_vars

---------------------------------------------------------------------------
(* The steps of one process / processWithStop call *)

\* a mutant of line 124: process hands `stop` to its steps as well
ReceivedWithStop(r, run) == Append(run.args, StopCallback(r))

\* what a step receives: process hands over its own arguments,
\* processWithStop its own arguments and then `stop`
Received(r, run) ==
    IF run.kind = "process" THEN run.args ELSE Append(run.args, StopCallback(r))

\* a mutant of the iterator: it stays on the first entry for one more turn
AdvanceFirstTwice(r, run, arr) ==
    IF run.idx < Len(arr)
    THEN [run EXCEPT !.idx = IF Len(run.calls) = 1 THEN @ ELSE @ + 1,
                     !.calls = Append(@, [fn |-> arr[IF Len(run.calls) = 1 THEN run.idx
                                                     ELSE run.idx + 1],
                                          recv |-> Received(r, run)]),
                     !.inflight = @ + 1,
                     !.out = NoOut,
                     !.pc = "await"]
    ELSE [run EXCEPT !.pc = "done", !.result = Resolved("true")]

\* One turn of `for (const middleware of this.#middlewares)`: the iterator
\* compares its index with the array's present length; past the end the loop
\* is left and the call returns true, otherwise the next middleware is called
\* and the call waits for what it returned.
Advance(r, run, arr) ==
    IF run.idx < Len(arr)
    THEN [run EXCEPT !.idx = @ + 1,
                     !.calls = Append(@, [fn |-> arr[run.idx + 1],
                                          recv |-> Received(r, run)]),
                     !.inflight = @ + 1,
                     !.out = NoOut,
                     !.pc = "await"]
    ELSE [run EXCEPT !.pc = "done", !.result = Resolved("true")]

\* a call is made: the body runs up to its first await
Begin(r, kind, args) ==
    /\ runs[r].pc = "none"
    /\ runs' = [runs EXCEPT ![r] =
                  Advance(r, [NoRun EXCEPT !.kind = kind, !.args = args], middlewares)]
    /\ UNCHANGED <<middlewares, lastCall>>

process(r, args) == Begin(r, "process", args)

processWithStop(r, args) == Begin(r, "processWithStop", args)

\* a mutant of line 136: one flag for all the calls
stopFlagShared(r, q) == TRUE

\* `let isStop = false` (line 136) is a local of the call: the flag that the
\* stop of call r sets is the flag of call q only when q is r
stopFlag(r, q) == q = r

\* The running step calls stop() with no argument: the flag is set and the
\* call of stop returns to the step.
StopCall(r) ==
    LET run == runs[r]
    IN  /\ run.kind = "processWithStop"
        /\ run.pc = "await"
        /\ run.inflight > 0
        /\ runs' = [q \in DOMAIN runs |->
                      IF q = r
                      THEN [run EXCEPT !.isStop = TRUE,
                                       !.stopAt = IF @ = 0 THEN Len(run.calls) ELSE @]
                      ELSE [runs[q] EXCEPT !.isStop = @ \/ stopFlag(r, q)]]
        /\ UNCHANGED <<middlewares, lastCall>>

\* The running step calls stop(err) with an error: the flag is set and `throw
\* err` (line 139) raises err at the place of the call, inside the step. Either
\* the step catches it and runs on (caught), or it leaves the step, which
\* thereby ends with err.
StopErr(r, err, caught) ==
    LET run == runs[r]
    IN  /\ run.kind = "processWithStop"
        /\ run.pc = "await"
        /\ run.inflight > 0
        /\ runs' = [q \in DOMAIN runs |->
                      IF q # r
                      THEN [runs[q] EXCEPT !.isStop = @ \/ stopFlag(r, q)]
                      ELSE IF caught
                      THEN [run EXCEPT !.isStop = TRUE,
                                       !.errAt = IF @ = 0 THEN Len(run.calls) ELSE @,
                                       !.sigErr = IF @ = "none" THEN err ELSE @]
                      ELSE [run EXCEPT !.isStop = TRUE,
                                       !.errAt = IF @ = 0 THEN Len(run.calls) ELSE @,
                                       !.sigErr = IF @ = "none" THEN err ELSE @,
                                       !.abrupt = TRUE,
                                       !.out = [t |-> "error", v |-> err],
                                       !.inflight = @ - 1,
                                       !.pc = "resume"]]
        /\ UNCHANGED <<middlewares, lastCall>>

\* The running step completes by itself: what it returned resolves to the
\* value o.v, or it throws / rejects with the error o.v.
Settle(r, o) ==
    LET run == runs[r]
    IN  /\ run.pc = "await"
        /\ run.inflight > 0
        /\ runs' = [runs EXCEPT ![r] =
                      [run EXCEPT
                         !.out = o,
                         !.inflight = @ - 1,
                         !.pc = "resume",
                         !.falseAt = IF @ = 0 /\ o = [t |-> "value", v |-> "false"]
                                     THEN Len(run.calls) ELSE @,
                         !.falsyAt = IF @ = 0 /\ run.kind = "process" /\ o.t = "value"
                                          /\ Falsy(o.v) /\ o.v # "false"
                                     THEN Len(run.calls) ELSE @]]
        /\ UNCHANGED <<middlewares, lastCall>>

\* a mutant of the await: the loop goes on without waiting for the step
notAwaited(run) == run.pc \in {"await", "resume"}

\* `await middleware(...)` (lines 124 and 142): the call resumes once the
\* promise of the step has settled
awaited(run) == run.pc = "resume"

\* a mutant of line 125: any falsy value stops the chain
isStopFalsy(v) == Falsy(v)

\* a mutant of line 125: nothing stops the chain
isStopNever(v) == FALSE

\* line 125: isStop === false
isStopFalse(v) == v = "false"

\* a mutant of line 143: a step that resolves false stops the chain too
stoppedOrFalse(run) == run.isStop \/ run.out.v = "false"

\* a mutant of line 143: the flag is not looked at
stoppedNever(run) == FALSE

\* line 143: if (isStop)
stopped(run) == run.isStop

\* the `return false` of the two loops
ShouldStop(run) ==
    IF run.kind = "process" THEN isStopFalse(run.out.v) ELSE stopped(run)

\* The call resumes after the await: a rejection leaves the call, which
\* rejects with the same error; otherwise the stop test, and then the next
\* turn of the loop.
Resume(r) ==
    LET run == runs[r]
    IN  /\ Active(run)
        /\ awaited(run)
        /\ runs' = [runs EXCEPT ![r] =
                      IF run.out.t = "error"
                      THEN [run EXCEPT !.pc = "done", !.result = Rejected(run.out.v)]
                      ELSE IF ShouldStop(run)
                      THEN [run EXCEPT !.pc = "done", !.result = Resolved("false")]
                      ELSE Advance(r, run, ArrayOf(run))]
        /\ UNCHANGED <<middlewares, lastCall>>

\* The promise of a call that has ended hands its outcome to the caller (for
\* a wrapped function, once its own body has ended); the call's record is
\* dropped.
Return(r) ==
    /\ runs[r].pc = "done"
    /\ runs[r].wpc # "await"
    /\ runs' = [runs EXCEPT ![r] = NoRun]
    /\ UNCHANGED <<middlewares, lastCall>>

---------------------------------------------------------------------------
(* The functions that wrap and wrapWithStop return *)

\* how the wrapped function fn ends when it is called
FnOutcomes == {Resolved("fn result"), Rejected("E2")}

\* The function returned by #wrap(fn, type) is called with args: it calls
\* middlewares[type](...arguments), which runs up to its first await, and
\* waits for its result.
wrapped(r, type, args) ==
    /\ runs[r].pc = "none"
    /\ runs' = [runs EXCEPT ![r] =
                  Advance(r, [NoRun EXCEPT !.kind = type, !.args = args,
                                           !.wpc = "await", !.wargs = args],
                          middlewares)]
    /\ UNCHANGED <<middlewares, lastCall>>

\* the function that wrap(fn) returns is called
wrap(r, args) == wrapped(r, "process", args)

\* the function that wrapWithStop(fn) returns is called
wrapWithStop(r, args) == wrapped(r, "processWithStop", args)

\* a mutant of `if (!result) return`: fn is called whatever the chain resolved
passesAlways(result) == TRUE

\* `if (!result) return`: the result of the chain is not falsy
passes(result) == ~Falsy(result.v)

\* The wrapped function resumes after `await middlewares[type](...)`: a
\* rejection of the chain leaves it; a falsy result makes it return nothing;
\* otherwise it returns fn.apply(this, arguments), which ends as o.
Continue(r, o) ==
    LET run == runs[r]
    IN  /\ run.pc = "done"
        /\ run.wpc = "await"
        /\ runs' = [runs EXCEPT ![r] =
                      IF run.result.t = "rejected"
                      THEN [run EXCEPT !.wpc = "done", !.wresult = run.result]
                      ELSE IF ~passes(run.result)
                      THEN [run EXCEPT !.wpc = "done",
                                       !.wresult = Resolved("undefined")]
                      ELSE [run EXCEPT !.wpc = "done",
                                       !.fnCalls = Append(@, [recv |-> run.wargs]),
                                       !.wresult = o]]
        /\ UNCHANGED <<middlewares, lastCall>>

---------------------------------------------------------------------------
(* Spec: the chain is built and changed, and calls of process and          *)
(* processWithStop run over it, one step at a time.                        *)

\* the candidates and anchors of the calls that change the chain in Spec
LiveValues == {"f", "af", "gen"}
LiveLists == {<<v>> : v \in LiveValues}

\* how a step completes by itself; processWithStop drops the value a step
\* resolves, so two values stand for all of them there
StepOutcomes(kind) ==
    {[t |-> "value", v |-> v] :
        v \in IF kind = "process" THEN StepValues ELSE {"false", "undefined"}}
        \cup {[t |-> "error", v |-> e] : e \in Errors}

\* how a step completes when the chain is changed during the call
LiveOutcomes ==
    {[t |-> "value", v |-> "undefined"], [t |-> "value", v |-> "false"]}

Init ==
    /\ middlewares = << >>
    /\ lastCall = NoCall
    /\ runs = [r \in Calls |-> NoRun]

\* the chain stays within MaxLiveChain, and a call in flight sees at most
\* MaxInFlightChanges calls that change the chain
Fits ==
    /\ Len(middlewares') <= MaxLiveChain
    /\ \A r \in Calls : runs'[r].mutated <= MaxInFlightChanges

Next ==
    \/ \E mws \in LiveLists : use(mws, FALSE) /\ Fits
    \/ \E mws \in LiveLists : unuse(mws, FALSE) /\ Fits
    \/ \E mws \in LiveLists : useFirst(mws, FALSE) /\ Fits
    \/ \E a \in LiveValues, mws \in LiveLists : useBefore(a, mws, FALSE) /\ Fits
    \/ \E a \in LiveValues, mws \in LiveLists : useAfter(a, mws, FALSE) /\ Fits
    \/ reset(FALSE) /\ Fits
    \/ \E r \in Calls, args \in CallArgs : process(r, args)
    \/ \E r \in Calls, args \in CallArgs : processWithStop(r, args)
    \/ \E r \in Calls : StopCall(r)
    \/ \E r \in Calls, e \in SignalledErrors, caught \in BOOLEAN :
          StopErr(r, e, caught)
    \/ \E r \in Calls : \E o \in StepOutcomes(runs[r].kind) : Settle(r, o)
    \/ \E r \in Calls : Resume(r)
    \/ \E r \in Calls : Return(r)

Spec == Init /\ [][Next]_vars


---------------------------------------------------------------------------
(* SpecCalls: on every chain of at most MaxLiveChain middlewares, calls of *)
(* process, processWithStop and of the functions that wrap and             *)
(* wrapWithStop return, with and without arguments; between two calls the  *)
(* chain may be reset.                                                     *)

InitCalls ==
    /\ middlewares \in ListsUpTo(Functions, MaxLiveChain)
    /\ lastCall = NoCall
    /\ runs = [r \in Calls |-> NoRun]

NextCalls ==
    \/ reset(TRUE) /\ \A r \in Calls : runs[r].pc = "none"
    \/ \E r \in Calls, args \in ArgLists : process(r, args)
    \/ \E r \in Calls, args \in ArgLists : processWithStop(r, args)
    \/ \E r \in Calls, args \in ArgLists : wrap(r, args)
    \/ \E r \in Calls, args \in ArgLists : wrapWithStop(r, args)
    \/ \E r \in Calls : StopCall(r)
    \/ \E r \in Calls, e \in SignalledErrors, caught \in BOOLEAN :
          StopErr(r, e, caught)
    \/ \E r \in Calls : \E o \in StepOutcomes(runs[r].kind) : Settle(r, o)
    \/ \E r \in Calls : Resume(r)
    \/ \E r \in Calls, o \in FnOutcomes : Continue(r, o)
    \/ \E r \in Calls : Return(r)

SpecCalls == InitCalls /\ [][NextCalls]_vars

---------------------------------------------------------------------------
(* SpecLive: one call of process or processWithStop over a chain of at     *)
(* most MaxLiveChain middlewares, and, while it is in flight, one call of  *)
(* an operation that changes the chain (by a running step or by another    *)
(* caller).                                                                *)

InitLive ==
    /\ middlewares \in ListsUpTo(Functions, MaxLiveChain)
    /\ lastCall = NoCall
    /\ runs = [r \in Calls |-> NoRun]

\* the change is made while the call is in flight, and it is the only one
MidFlight ==
    /\ lastCall.op = "none"
    /\ \E r \in Calls : Active(runs[r])

NextLive ==
    \/ \E mws \in LiveLists : MidFlight /\ use(mws, TRUE)
    \/ \E mws \in LiveLists : MidFlight /\ unuse(mws, TRUE)
    \/ \E mws \in LiveLists : MidFlight /\ useFirst(mws, TRUE)
    \/ \E a \in LiveValues, mws \in LiveLists : MidFlight /\ useBefore(a, mws, TRUE)
    \/ \E a \in LiveValues, mws \in LiveLists : MidFlight /\ useAfter(a, mws, TRUE)
    \/ MidFlight /\ reset(TRUE)
    \/ \E r \in Calls, args \in CallArgs : lastCall.op = "none" /\ process(r, args)
    \/ \E r \in Calls, args \in CallArgs :
          lastCall.op = "none" /\ processWithStop(r, args)
    \/ \E r \in Calls : StopCall(r)
    \/ \E r \in Calls : \E o \in LiveOutcomes : Settle(r, o)
    \/ \E r \in Calls : Resume(r)

SpecLive == InitLive /\ [][NextLive]_vars

---------------------------------------------------------------------------
(* SpecFair: calls of process and processWithStop, one after the other, on *)
(* a chain of at most MaxLiveChain middlewares, to which a running step or *)
(* another caller may append during a call; every step completes (the      *)
(* promise it returned settles), and a call resumes once the promise it    *)
(* awaits has settled.                                                     *)

InitFair ==
    /\ middlewares \in ListsUpTo(Functions, MaxLiveChain)
    /\ lastCall = NoCall
    /\ runs = [r \in Calls |-> NoRun]

NextFair ==
    \/ \E mws \in LiveLists :
          /\ \E r \in Calls : Active(runs[r])
          /\ use(mws, FALSE)
          /\ Fits
    \/ \E r \in Calls, args \in CallArgs : process(r, args)
    \/ \E r \in Calls, args \in CallArgs : processWithStop(r, args)
    \/ \E r \in Calls : StopCall(r)
    \/ \E r \in Calls : \E o \in StepOutcomes(runs[r].kind) : Settle(r, o)
    \/ \E r \in Calls : Resume(r)
    \/ \E r \in Calls : Return(r)

SpecFair ==
    /\ InitFair
    /\ [][NextFair]_vars
    /\ WF_vars(\E r \in Calls : \E o \in StepOutcomes(runs[r].kind) : Settle(r, o))
    /\ WF_vars(\E r \in Calls : Resume(r))

---------------------------------------------------------------------------
(* SpecTwo: two calls of processWithStop on one chain of at most           *)
(* MaxLiveChain middlewares, their steps interleaved at every await.       *)

TwoCalls == {"c1", "c2"}

\* how a step of the two calls completes by itself
TwoOutcomes == {[t |-> "value", v |-> "undefined"], [t |-> "error", v |-> "E1"]}

InitTwo ==
    /\ middlewares \in ListsUpTo({"f", "af"}, MaxLiveChain)
    /\ lastCall = NoCall
    /\ runs = [r \in TwoCalls |-> NoRun]

NextTwo ==
    \/ \E r \in TwoCalls, args \in CallArgs : processWithStop(r, args)
    \/ \E r \in TwoCalls : StopCall(r)
    \/ \E r \in TwoCalls, e \in SignalledErrors, caught \in BOOLEAN :
          StopErr(r, e, caught)
    \/ \E r \in TwoCalls : \E o \in TwoOutcomes : Settle(r, o)
    \/ \E r \in TwoCalls : Resume(r)
    \/ \E r \in TwoCalls : Return(r)

SpecTwo == InitTwo /\ [][NextTwo]_vars

---------------------------------------------------------------------------
(* What the operations that change the chain are said to do, stated apart  *)
(* from the loops above                                                    *)

Range(s) == {s[i] : i \in 1..Len(s)}

\* the chain with one z next to every occurrence of anchor: before it
\* (diff = 0) or after it (diff = 1)
RECURSIVE Adjacent(_, _, _, _)
Adjacent(chain, anchor, z, diff) ==
    IF chain = << >> THEN << >>
    ELSE (IF Head(chain) # anchor THEN <<Head(chain)>>
          ELSE IF diff = 0 THEN <<z, anchor>> ELSE <<anchor, z>>)
         \o Adjacent(Tail(chain), anchor, z, diff)

\* the candidates zs put next to the anchor one after the other
RECURSIVE AdjacentAll(_, _, _, _)
AdjacentAll(chain, anchor, zs, diff) ==
    IF zs = << >> THEN chain
    ELSE AdjacentAll(Adjacent(chain, anchor, Head(zs), diff), anchor, Tail(zs), diff)

\* the chain `pre` with the valid candidates zs applied by the operation op
Applied(op, pre, zs, anchor) ==
    CASE op = "use"       -> pre \o zs
      [] op = "unuse"     -> SelectSeq(pre, LAMBDA m : m \notin Range(zs))
      [] op = "useFirst"  -> zs \o pre
      [] op = "useBefore" -> AdjacentAll(pre, anchor, zs, 0)
      [] op = "useAfter"  -> AdjacentAll(pre, anchor, zs, 1)

Invalid(mws) == {k \in 1..Len(mws) : ~isFunction(mws[k])}
FirstInvalid(mws) == CHOOSE k \in Invalid(mws) : \A j \in Invalid(mws) : k <= j
LastInvalid(mws) == CHOOSE k \in Invalid(mws) : \A j \in Invalid(mws) : j <= k
BeforeFirstInvalid(mws) == SubSeq(mws, 1, FirstInvalid(mws) - 1)
AfterLastInvalid(mws) == SubSeq(mws, LastInvalid(mws) + 1, Len(mws))

CandidateOps == {"use", "unuse", "useFirst", "useBefore", "useAfter"}

\* C5 as stated: a call with an invalid candidate raises the error, and has
\* applied exactly the candidates that stand before the first invalid one in
\* the caller's argument list, whatever the operation.
C5_PrefixAppliedByEveryOperation ==
    (lastCall.op \in CandidateOps /\ Invalid(lastCall.mws) # {}) =>
        /\ lastCall.raised
        /\ middlewares = Applied(lastCall.op, lastCall.pre,
                                 BeforeFirstInvalid(lastCall.mws), lastCall.anchor)

\* C5 as amended: a call with an invalid candidate raises the error; use,
\* unuse, useBefore and useAfter have then applied exactly the candidates
\* before the first invalid one; useFirst, which takes its candidates from
\* the last to the first, has applied exactly the candidates after the last
\* invalid one, in front of the chain in the caller's order.
C5_AppliedUpToTheInvalidCandidate ==
    (lastCall.op \in CandidateOps /\ Invalid(lastCall.mws) # {}) =>
        /\ lastCall.raised
        /\ middlewares =
             IF lastCall.op = "useFirst"
             THEN Applied("useFirst", lastCall.pre,
                          AfterLastInvalid(lastCall.mws), lastCall.anchor)
             ELSE Applied(lastCall.op, lastCall.pre,
                          BeforeFirstInvalid(lastCall.mws), lastCall.anchor)

\* useFirst(valid, invalid, valid) has raised the error and put only its last
\* candidate in front of a chain of two
C5_Witness ==
    /\ lastCall.op = "useFirst"
    /\ lastCall.raised
    /\ Len(lastCall.mws) = 3
    /\ Invalid(lastCall.mws) = {2}
    /\ lastCall.mws[1] # lastCall.mws[3]
    /\ Len(lastCall.pre) = 2
    /\ middlewares = <<lastCall.mws[3]>> \o lastCall.pre

\* C9: useBefore / useAfter with one valid candidate Z gives the previous
\* chain with one Z right before (useBefore) or right after (useAfter) every
\* occurrence of the anchor, the other elements in their order.
C9_OneCopyNextToEveryAnchor ==
    (/\ lastCall.op \in {"useBefore", "useAfter"}
     /\ Len(lastCall.mws) = 1
     /\ isFunction(lastCall.mws[1])) =>
        /\ ~lastCall.raised
        /\ middlewares = Adjacent(lastCall.pre, lastCall.anchor, lastCall.mws[1],
                                  IF lastCall.op = "useBefore" THEN 0 ELSE 1)

\* [A, anchor, B, anchor, C] with Z before the anchor has become
\* [A, Z, anchor, B, Z, anchor, C]
C9_Witness ==
    /\ lastCall.op = "useBefore"
    /\ Len(lastCall.mws) = 1
    /\ Len(lastCall.pre) = 5
    /\ {i \in 1..5 : lastCall.pre[i] = lastCall.anchor} = {2, 4}
    /\ lastCall.mws[1] # lastCall.anchor
    /\ lastCall.pre[1] # lastCall.pre[3]
    /\ middlewares = <<lastCall.pre[1], lastCall.mws[1], lastCall.anchor,
                       lastCall.pre[3], lastCall.mws[1], lastCall.anchor,
                       lastCall.pre[5]>>

\* C10: useFirst(c1, ..., cn) with every candidate valid on a chain S gives
\* c1, ..., cn followed by S.
C10_UseFirstKeepsArgumentOrder ==
    (lastCall.op = "useFirst" /\ Invalid(lastCall.mws) = {}) =>
        /\ ~lastCall.raised
        /\ middlewares = lastCall.mws \o lastCall.pre

\* useFirst(P, Q) on [X, Y] has given [P, Q, X, Y], with P and Q different
C10_Witness ==
    /\ lastCall.op = "useFirst"
    /\ Len(lastCall.mws) = 2
    /\ lastCall.mws[1] # lastCall.mws[2]
    /\ Len(lastCall.pre) = 2
    /\ ~lastCall.raised
    /\ middlewares = <<lastCall.mws[1], lastCall.mws[2],
                       lastCall.pre[1], lastCall.pre[2]>>

\* how often x stands in the chain
Count(chain, x) == Cardinality({i \in 1..Len(chain) : chain[i] = x})

\* the chain without x, element by element
RECURSIVE Without(_, _)
Without(chain, x) ==
    IF chain = << >> THEN << >>
    ELSE (IF Head(chain) = x THEN << >> ELSE <<Head(chain)>>) \o Without(Tail(chain), x)

\* C11: unuse(x) removes every occurrence of x and keeps the other elements
\* in their order; the length drops by the number of occurrences of x.
C11_UnuseRemovesEveryOccurrence ==
    (lastCall.op = "unuse" /\ Len(lastCall.mws) = 1 /\ isFunction(lastCall.mws[1])) =>
        /\ ~lastCall.raised
        /\ middlewares = Without(lastCall.pre, lastCall.mws[1])
        /\ Count(middlewares, lastCall.mws[1]) = 0
        /\ Len(middlewares) = Len(lastCall.pre) - Count(lastCall.pre, lastCall.mws[1])

\* [f, g, f, h] after unuse(f) is [g, h]
C11_Witness ==
    /\ lastCall.op = "unuse"
    /\ Len(lastCall.mws) = 1
    /\ Len(lastCall.pre) = 4
    /\ {i \in 1..4 : lastCall.pre[i] = lastCall.mws[1]} = {1, 3}
    /\ lastCall.pre[2] # lastCall.pre[4]
    /\ middlewares = <<lastCall.pre[2], lastCall.pre[4]>>

\* C12: use(c1, ..., cn) with every candidate valid gives the old chain
\* followed by c1, ..., cn: n more entries, a value already stored or given
\* twice being stored again.
C12_UseAppendsInArgumentOrder ==
    (lastCall.op = "use" /\ Invalid(lastCall.mws) = {}) =>
        /\ ~lastCall.raised
        /\ Len(middlewares) = Len(lastCall.pre) + Len(lastCall.mws)
        /\ \A i \in 1..Len(lastCall.pre) : middlewares[i] = lastCall.pre[i]
        /\ \A k \in 1..Len(lastCall.mws) :
              middlewares[Len(lastCall.pre) + k] = lastCall.mws[k]

\* use(c, d, c) on a chain that holds c already has stored c twice more
C12_Witness ==
    /\ lastCall.op = "use"
    /\ Len(lastCall.mws) = 3
    /\ lastCall.mws[1] = lastCall.mws[3]
    /\ lastCall.mws[1] # lastCall.mws[2]
    /\ Count(lastCall.pre, lastCall.mws[1]) = 1
    /\ ~lastCall.raised
    /\ Count(middlewares, lastCall.mws[1]) = 3
    /\ Len(middlewares) = Len(lastCall.pre) + 3

\* C16: unuse of valid steps none of which is in the chain, and useBefore /
\* useAfter of valid candidates with an anchor that is not in the chain
\* (a runnable step or not), raise no error and leave the chain as it was.
C16_AbsentValuesChangeNothing ==
    /\ (/\ lastCall.op = "unuse"
        /\ Invalid(lastCall.mws) = {}
        /\ Range(lastCall.mws) \cap Range(lastCall.pre) = {}) =>
            (~lastCall.raised /\ middlewares = lastCall.pre)
    /\ (/\ lastCall.op \in {"useBefore", "useAfter"}
        /\ Invalid(lastCall.mws) = {}
        /\ lastCall.anchor \notin Range(lastCall.pre)) =>
            (~lastCall.raised /\ middlewares = lastCall.pre)

\* useAfter with two valid candidates and an anchor that is no runnable step
\* has left a chain of three as it was
C16_Witness ==
    /\ lastCall.op = "useAfter"
    /\ ~isFunction(lastCall.anchor)
    /\ Len(lastCall.mws) = 2
    /\ Invalid(lastCall.mws) = {}
    /\ Len(lastCall.pre) = 3
    /\ ~lastCall.raised
    /\ middlewares = lastCall.pre

\* C17: whatever the call, failed or not, every element of the chain is a
\* value that passes isFunction; and a call raises the invalid-step error
\* exactly when one of its candidates is invalid.
C17_OnlyValidStepsAreStored ==
    /\ \A i \in 1..Len(middlewares) : Tag(middlewares[i]) \in {TagFUNCTION, TagASYNC_FUNCTION}
    /\ lastCall.op \in CandidateOps => (lastCall.raised <=> Invalid(lastCall.mws) # {})
    /\ lastCall.op = "reset" => ~lastCall.raised

\* use(valid, invalid) has raised the error and stored the valid candidate only
C17_Witness ==
    /\ lastCall.op = "use"
    /\ Len(lastCall.mws) = 2
    /\ Invalid(lastCall.mws) = {2}
    /\ lastCall.raised
    /\ middlewares = Append(lastCall.pre, lastCall.mws[1])

\* by how much useBefore / useAfter of the valid candidates zs grows a chain
\* that holds the anchor occ times: each candidate once per occurrence there
\* is when its turn comes (a candidate that is the anchor doubles them)
RECURSIVE GrowthOf(_, _, _)
GrowthOf(occ, zs, anchor) ==
    IF zs = << >> THEN 0
    ELSE occ + GrowthOf(IF Head(zs) = anchor THEN 2 * occ ELSE occ, Tail(zs), anchor)

\* C20: useBefore / useAfter with valid candidates ends, and each candidate,
\* the anchor itself included, has grown the chain by exactly the number of
\* occurrences of the anchor there were when its turn came.
C20_InsertedElementsAreNotRescanned ==
    (lastCall.op \in {"useBefore", "useAfter"} /\ Invalid(lastCall.mws) = {}) =>
        /\ Len(middlewares) =
              Len(lastCall.pre)
                + GrowthOf(Count(lastCall.pre, lastCall.anchor), lastCall.mws,
                           lastCall.anchor)
        /\ Len(lastCall.mws) = 1 =>
              Count(middlewares, lastCall.mws[1]) =
                 Count(lastCall.pre, lastCall.mws[1])
                    + Count(lastCall.pre, lastCall.anchor)

\* useAfter(anchor, anchor) on a chain that holds the anchor twice has grown
\* it by two
C20_Witness ==
    /\ lastCall.op = "useAfter"
    /\ lastCall.mws = <<lastCall.anchor>>
    /\ Count(lastCall.pre, lastCall.anchor) = 2
    /\ Len(lastCall.pre) = 4
    /\ Len(middlewares) = 6
    /\ Count(middlewares, lastCall.anchor) = 4

---------------------------------------------------------------------------
(* What process and processWithStop are said to do *)

\* the middlewares a call has invoked so far, in the order of the invocations
Invoked(run) == [i \in 1..Len(run.calls) |-> run.calls[i].fn]

\* the call has ended without a rejection
EndedWell(run) == run.pc = "done" /\ run.result.t = "resolved"

\* C1: process, the chain not changed during the call: the steps are invoked
\* in chain order; once a step has resolved exactly false no later step is
\* invoked and the call resolves false; a call that ends with no step having
\* resolved false (and none having thrown) has invoked every step once, in
\* order, and resolves true.
C1_ProcessRunsInOrderUntilFalse ==
    \A r \in Calls :
        LET run == runs[r]
        IN  (run.kind = "process" /\ run.mutated = 0) =>
              /\ Invoked(run) = SubSeq(middlewares, 1, Len(run.calls))
              /\ run.falseAt > 0 =>
                    /\ Len(run.calls) = run.falseAt
                    /\ run.pc \in {"resume", "done"}
                    /\ run.pc = "done" => run.result = Resolved("false")
              /\ (EndedWell(run) /\ run.falseAt = 0) =>
                    /\ run.result = Resolved("true")
                    /\ Invoked(run) = middlewares

\* process on a chain of three has resolved false after its first step
\* resolved false, and has invoked that step only
C1_Witness ==
    \E r \in Calls :
        /\ runs[r].kind = "process"
        /\ runs[r].mutated = 0
        /\ runs[r].result = Resolved("false")
        /\ runs[r].falseAt = 1
        /\ Len(runs[r].calls) = 1
        /\ Len(middlewares) = 3

\* C2: processWithStop: once a step has called stop() no later step is
\* invoked, and the call, when the step completes, resolves false; a call that
\* ends with stop never called (and no step having thrown) resolves true and,
\* the chain not changed meanwhile, has invoked every step.
C2_StopCallbackEndsTheRun ==
    \A r \in Calls :
        LET run == runs[r]
        IN  run.kind = "processWithStop" =>
              /\ run.stopAt > 0 =>
                    /\ Len(run.calls) = run.stopAt
                    /\ EndedWell(run) => run.result = Resolved("false")
              /\ (EndedWell(run) /\ run.stopAt = 0 /\ run.errAt = 0) =>
                    /\ run.result = Resolved("true")
                    /\ run.mutated = 0 => Invoked(run) = middlewares

\* processWithStop on a chain of three has resolved false after its second
\* step called stop(), the third step never invoked
C2_Witness ==
    \E r \in Calls :
        /\ runs[r].kind = "processWithStop"
        /\ runs[r].mutated = 0
        /\ runs[r].stopAt = 2
        /\ runs[r].errAt = 0
        /\ runs[r].result = Resolved("false")
        /\ Len(runs[r].calls) = 2
        /\ Len(middlewares) = 3

\* C3 as stated: whenever a step has called stop(err) with an error, no later
\* step is invoked and the call, when it ends, has rejected with that error,
\* whatever the step did afterwards.
C3_SignalledErrorAlwaysRejects ==
    \A r \in Calls :
        LET run == runs[r]
        IN  (run.kind = "processWithStop" /\ run.errAt > 0) =>
              /\ Len(run.calls) = run.errAt
              /\ run.pc = "done" => run.result = Rejected(run.sigErr)

\* C4 as stated: stop(err) returns to the step, which is not ended by it;
\* the step runs on to its own completion, and the call then fails with err.
C4_StopWithErrorReturnsToTheStep ==
    \A r \in Calls :
        LET run == runs[r]
        IN  (run.kind = "processWithStop" /\ run.errAt > 0) =>
              /\ ~run.abrupt
              /\ run.pc = "done" => run.result = Rejected(run.sigErr)

\* C6: within one call no two steps are in flight together: a step is
\* invoked only when every step invoked before it has settled.
C6_OneStepAtATime ==
    \A r \in Calls :
        /\ runs[r].inflight <= 1
        /\ runs[r].inflight = 1 <=> runs[r].pc = "await"

\* a third step is in flight, the two before it settled
C6_Witness ==
    \E r \in Calls :
        /\ runs[r].pc = "await"
        /\ Len(runs[r].calls) = 3
        /\ runs[r].inflight = 1

\* C7: process resolves false only when a step has resolved exactly false; a
\* call in which a step resolved 0, null, undefined or "" and that ends with
\* no step having resolved false (and none having thrown) resolves true and,
\* the chain not changed meanwhile, has invoked every step.
C7_OnlyExactFalseStopsProcess ==
    \A r \in Calls :
        LET run == runs[r]
        IN  run.kind = "process" =>
              /\ run.result = Resolved("false") => run.falseAt > 0
              /\ (run.pc = "resume" /\ run.out.t = "value" /\ run.out.v # "false")
                    => run.falseAt = 0
              /\ (EndedWell(run) /\ run.falsyAt > 0 /\ run.falseAt = 0) =>
                    /\ run.result = Resolved("true")
                    /\ run.mutated = 0 => Invoked(run) = middlewares

\* process on a chain of three has resolved true although its first step
\* resolved a falsy value
C7_Witness ==
    \E r \in Calls :
        /\ runs[r].kind = "process"
        /\ runs[r].mutated = 0
        /\ runs[r].falsyAt = 1
        /\ runs[r].result = Resolved("true")
        /\ Len(runs[r].calls) = 3

\* C8: processWithStop resolves false only when the stop-callback was
\* called; a call in which a step resolved false and that ends with stop
\* never called (and no step having thrown) resolves true.
C8_ReturnValuesDoNotStopProcessWithStop ==
    \A r \in Calls :
        LET run == runs[r]
        IN  run.kind = "processWithStop" =>
              /\ run.result = Resolved("false") => (run.stopAt > 0 \/ run.errAt > 0)
              /\ (EndedWell(run) /\ run.falseAt > 0 /\ run.stopAt = 0 /\ run.errAt = 0)
                    => run.result = Resolved("true")

\* processWithStop on a chain of three has resolved true although its first
\* step resolved false
C8_Witness ==
    \E r \in Calls :
        /\ runs[r].kind = "processWithStop"
        /\ runs[r].falseAt = 1
        /\ runs[r].stopAt = 0
        /\ runs[r].errAt = 0
        /\ runs[r].result = Resolved("true")
        /\ Len(runs[r].calls) = 3


---------------------------------------------------------------------------
(* What the calls are said to do with their arguments, with an empty       *)
(* chain, with a chain changed under them, and with one another            *)

\* C13: the function returned by wrap(fn) / wrapWithStop(fn) runs process /
\* processWithStop on the chain as it is at the call with the arguments it
\* receives; fn is invoked, once and with those same arguments, if and only
\* if the chain has resolved true; when the chain resolves false fn is not
\* invoked and the wrapped function resolves to nothing.
C13_WrappedFunctionIsGatedByTheChain ==
    \A r \in Calls :
        LET run == runs[r]
        IN  run.wpc # "none" =>
              /\ run.args = run.wargs
              /\ EndedWell(run) /\ run.result.v = "true" => Invoked(run) = middlewares
              /\ run.fnCalls # << >> <=>
                    (run.wpc = "done" /\ run.result = Resolved("true"))
              /\ run.fnCalls \in {<< >>, <<[recv |-> run.wargs]>>}
              /\ (run.wpc = "done" /\ run.result = Resolved("false")) =>
                    (run.fnCalls = << >> /\ run.wresult = Resolved("undefined"))
              /\ (run.wpc = "done" /\ run.result.t = "rejected") =>
                    (run.fnCalls = << >> /\ run.wresult = run.result)
              /\ run.wpc = "await" => run.wresult = Pending

\* the function returned by wrap(fn), called with (x, y) on a chain of two,
\* has resolved to nothing without invoking fn: the second step resolved false
C13_Witness ==
    /\ runs["c1"].wpc = "done"
    /\ runs["c1"].kind = "process"
    /\ runs["c1"].wargs = <<"x", "y">>
    /\ Len(middlewares) = 2
    /\ runs["c1"].falseAt = 2
    /\ runs["c1"].result = Resolved("false")
    /\ runs["c1"].fnCalls = << >>
    /\ runs["c1"].wresult = Resolved("undefined")

\* C14: every step that process(...args) invokes receives exactly args; every
\* step that processWithStop(...args) invokes receives args and then one more
\* argument, the stop-callback of that call, the same for all its steps.
C14_StepsReceiveTheArgumentsOfTheCall ==
    \A r \in Calls :
        LET run == runs[r]
        IN  \A i \in 1..Len(run.calls) :
              LET recv == run.calls[i].recv
              IN  IF run.kind = "process"
                  THEN recv = run.args
                  ELSE /\ Len(recv) = Len(run.args) + 1
                       /\ SubSeq(recv, 1, Len(run.args)) = run.args
                       /\ recv[Len(recv)] = StopCallback(r)
                       /\ recv[Len(recv)] = run.calls[1].recv[Len(run.calls[1].recv)]

\* processWithStop(x, y) has invoked three steps, each with (x, y, stop)
C14_Witness ==
    /\ runs["c1"].kind = "processWithStop"
    /\ runs["c1"].args = <<"x", "y">>
    /\ Len(runs["c1"].calls) = 3
    /\ \A i \in 1..3 : runs["c1"].calls[i].recv = <<"x", "y", StopCallback("c1")>>

\* C15: reset() leaves the chain empty whatever it held, and a call of
\* process or processWithStop made on an empty chain has resolved true and
\* has invoked no step.
C15_ResetEmptiesAndEmptyChainResolvesTrue ==
    /\ lastCall.op = "reset" =>
          (middlewares = << >> /\ Len(middlewares) = 0 /\ ~lastCall.raised)
    /\ \A r \in Calls :
          (runs[r].kind # "none" /\ runs[r].mutated = 0 /\ middlewares = << >>) =>
              /\ runs[r].pc = "done"
              /\ runs[r].result = Resolved("true")
              /\ runs[r].calls = << >>

\* after reset() of a chain of three, process has resolved true with no step
\* invoked
C15_Witness ==
    /\ lastCall.op = "reset"
    /\ Len(lastCall.pre) = 3
    /\ middlewares = << >>
    /\ runs["c1"].kind = "process"
    /\ runs["c1"].wpc = "none"
    /\ runs["c1"].pc = "done"
    /\ runs["c1"].result = Resolved("true")
    /\ runs["c1"].calls = << >>

\* the call r was in flight when the chain was changed
ChangedInFlight(r) == lastCall.op # "none" /\ runs[r].mutated = 1

\* the call recorded assigned a new array to the chain: reset, and unuse
\* that got to apply a candidate
NewArray ==
    \/ lastCall.op = "reset"
    \/ lastCall.op = "unuse" /\ lastCall.mws # << >> /\ isFunction(lastCall.mws[1])

C19_StopStateIsPerCall ==
    \A r \in DOMAIN runs :
        LET run == runs[r]
            own == run.stopAt > 0 \/ run.errAt > 0
        IN  /\ run.isStop => own
            /\ (EndedWell(run) /\ run.result.v = "false") => own
            /\ (EndedWell(run) /\ ~own) =>
                  (run.result = Resolved("true") /\ Invoked(run) = middlewares)
            /\ (Active(run) /\ ~own) =>
                  Invoked(run) = SubSeq(middlewares, 1, Len(run.calls))

\* both calls are in flight; the first step of c1 has called the stop of c1,
\* and c2 has gone on to its third step, not stopped
C19_Witness ==
    /\ DOMAIN runs = TwoCalls
    /\ runs["c1"].pc = "await"
    /\ runs["c1"].stopAt = 1
    /\ runs["c1"].isStop
    /\ runs["c2"].pc = "await"
    /\ Len(runs["c2"].calls) = 3
    /\ ~runs["c2"].isStop


---------------------------------------------------------------------------
(* The order of several candidates next to the anchor, and the number of   *)
(* steps a call invokes                                                    *)

\* the chain with every occurrence of anchor replaced by block
RECURSIVE Placed(_, _, _)
Placed(chain, anchor, block) ==
    IF chain = << >> THEN << >>
    ELSE (IF Head(chain) = anchor THEN block ELSE <<Head(chain)>>)
         \o Placed(Tail(chain), anchor, block)

\* the candidates from the last to the first
Backwards(zs) == [i \in 1..Len(zs) |-> zs[Len(zs) + 1 - i]]

\* where useBefore / useAfter of several candidates is said to put them:
\* c1, ..., cn, anchor at every occurrence of the anchor for useBefore,
\* anchor, cn, ..., c1 for useAfter
NextToEveryAnchor ==
    IF lastCall.op = "useBefore"
    THEN Placed(lastCall.pre, lastCall.anchor,
                Append(lastCall.mws, lastCall.anchor))
    ELSE Placed(lastCall.pre, lastCall.anchor,
                <<lastCall.anchor>> \o Backwards(lastCall.mws))

\* C21 as stated: with several valid candidates, whatever they are, useBefore
\* leaves c1, ..., cn, anchor and useAfter leaves anchor, cn, ..., c1 at every
\* occurrence of the anchor.
C21_SeveralCandidatesNextToTheAnchor ==
    (/\ lastCall.op \in {"useBefore", "useAfter"}
     /\ Len(lastCall.mws) >= 2
     /\ Invalid(lastCall.mws) = {}) =>
        middlewares = NextToEveryAnchor

\* C21 as amended: the same, for candidates none of which is the anchor.
C21_CandidatesOtherThanTheAnchor ==
    (/\ lastCall.op \in {"useBefore", "useAfter"}
     /\ Len(lastCall.mws) >= 2
     /\ Invalid(lastCall.mws) = {}
     /\ lastCall.anchor \notin Range(lastCall.mws)) =>
        middlewares = NextToEveryAnchor

\* useAfter(anchor, c1, c2), c1 and c2 different and neither the anchor, on a
\* chain that holds the anchor twice: anchor, c2, c1 stands there twice
C21_Witness ==
    /\ lastCall.op = "useAfter"
    /\ Len(lastCall.mws) = 2
    /\ Invalid(lastCall.mws) = {}
    /\ lastCall.mws[1] # lastCall.mws[2]
    /\ lastCall.anchor \notin Range(lastCall.mws)
    /\ Count(lastCall.pre, lastCall.anchor) = 2
    /\ Len(lastCall.pre) = 3
    /\ Len(middlewares) = 7
    /\ \E i \in 1..5 :
          /\ middlewares[i] = lastCall.anchor
          /\ middlewares[i + 1] = lastCall.mws[2]
          /\ middlewares[i + 2] = lastCall.mws[1]


\* C22: while no operation has changed the chain during the call, the steps
\* a call of process / processWithStop has invoked are the first entries of
\* the chain, each entry once: at most n invocations on a chain of n; and
\* when every step completes, such a call ends (it resolves or rejects)
\* unless the chain is changed under it.
C22_CallEndsWithinTheChain ==
    /\ [](\A r \in Calls :
            (runs[r].kind # "none" /\ runs[r].mutated = 0) =>
               /\ Len(runs[r].calls) <= Len(middlewares)
               /\ \A i \in 1..Len(runs[r].calls) :
                     runs[r].calls[i].fn = middlewares[i])
    /\ \A r \in Calls :
          (Active(runs[r]) /\ runs[r].mutated = 0)
             ~> (runs[r].pc = "done" \/ runs[r].mutated > 0)

\* a call on a chain of three, not changed during the call, has ended after
\* three invocations
C22_Witness ==
    /\ Len(middlewares) = 3
    /\ runs["c1"].pc = "done"
    /\ runs["c1"].mutated = 0
    /\ runs["c1"].result = Resolved("true")
    /\ Len(runs["c1"].calls) = 3

=============================================================================
